---- MODULE Spec2Model ----
(***************************************************************************)
(* Model of py_random_dot_org/basic_api.py: the BasicApi client of the     *)
(* Random.org JSON-RPC service.                                            *)
(*                                                                         *)
(* One call of an operation is a sequential pipeline                       *)
(*   build payload -> post -> status check -> extract -> quota -> return   *)
(* and pc is the position of the (single) calling thread in it.  The       *)
(* transport (requests.post) is the environment: it answers a posted       *)
(* request with a response, with a ConnectionError, or with another error. *)
(***************************************************************************)
EXTENDS Integers, Sequences, FiniteSets, TLC

(***************************************************************************)
(* Bounds of the model.                                                    *)
(***************************************************************************)
MaxThreshold == 2
MaxCounter == 1
MaxId == 2

(***************************************************************************)
(* Values the construction arguments and the transport are drawn from.     *)
(***************************************************************************)
\* the api_key, version and version_str the client is constructed with: the
\* defaults of the constructor, and a client where all three differ from them
ConstructorArgs ==
    {[api_key |-> "key_a", version |-> 4, version_str |-> "4.0"],
     [api_key |-> "key_b", version |-> 12, version_str |-> "2.0"]}
Versions == {c.version : c \in ConstructorArgs}
Thresholds == 0..MaxThreshold
Counters == 0..MaxCounter
StatusCodes == {199, 200, 299, 300}
DataValues == {<<1, 2>>, <<3>>}
TotalBitsValues == {7}
TotalRequestsValues == {9}

(***************************************************************************)
(* Python values.  An optional argument is <<>> when the caller omits it   *)
(* and <<v>> when the caller supplies v.                                   *)
(***************************************************************************)
Opt(S) == {<<>>} \cup {<<v>> : v \in S}

Default(arg, d) == IF arg = <<>> THEN d ELSE arg[1]

\* a value of the caller-facing result type: None, a list or the usage dict
NoDict == [bits_left |-> 0, requests_left |-> 0, total_bits |-> 0, total_requests |-> 0]

None == [t |-> "None", list |-> <<>>, dict |-> NoDict]

PyList(l) == [t |-> "list", list |-> l, dict |-> NoDict]

PyDict(d) == [t |-> "dict", list |-> <<>>, dict |-> d]

\* a value of a per-sequence parameter of generate_integer_sequences
SeqParam(l) == [t |-> "list", v |-> l]

IntParam(n) == [t |-> "int", v |-> <<n>>]

NoneParam == [t |-> "None", v |-> <<>>]

\* the expression list[int] of line 122: a type object, not a list of bases
ListIntType == [t |-> "types.GenericAlias", v |-> <<>>]

(***************************************************************************)
(* str(version) of line 33, for a non-negative integer.                    *)
(***************************************************************************)
DigitChars == <<"0", "1", "2", "3", "4", "5", "6", "7", "8", "9">>

RECURSIVE str(_)
str(n) == IF n < 10 THEN DigitChars[n + 1]
          ELSE str(n \div 10) \o DigitChars[(n % 10) + 1]

MakeUrl(v) == "https://api.random.org/json-rpc/" \o str(v) \o "/invoke"

(***************************************************************************)
(* The response body.  content is the raw body: it decodes to a JSON       *)
(* document or it does not; the document has a "result" object or not; the *)
(* result object has any subset of the keys the code reads, and its        *)
(* "random" object has a "data" member or not.                             *)
(***************************************************************************)
ResultKeys == {"random", "requestsLeft", "bitsLeft", "totalBits", "totalRequests"}

Garbage == [decodable |-> FALSE, has_result |-> FALSE, keys |-> {}, has_data |-> FALSE,
            data |-> <<>>, requestsLeft |-> 0, bitsLeft |-> 0, totalBits |-> 0,
            totalRequests |-> 0]

NoResultDoc == [Garbage EXCEPT !.decodable = TRUE]

ResultDocs ==
    { [decodable |-> TRUE, has_result |-> TRUE, keys |-> ks,
       has_data |-> hd, data |-> d, requestsLeft |-> rl, bitsLeft |-> bl,
       totalBits |-> tb, totalRequests |-> tr] :
         ks \in SUBSET ResultKeys, hd \in BOOLEAN, d \in DataValues \cup {<<>>},
         rl \in Counters, bl \in Counters,
         tb \in TotalBitsValues \cup {0}, tr \in TotalRequestsValues \cup {0} }

\* one record per document: a member that is absent carries the filler value
Canonical(c) ==
    /\ (c.has_data => "random" \in c.keys)
    /\ (c.has_data <=> c.data # <<>>)
    /\ ("requestsLeft" \notin c.keys => c.requestsLeft = 0)
    /\ ("bitsLeft" \notin c.keys => c.bitsLeft = 0)
    /\ ("totalBits" \in c.keys <=> c.totalBits # 0)
    /\ ("totalRequests" \in c.keys <=> c.totalRequests # 0)

Contents == {Garbage, NoResultDoc} \cup {c \in ResultDocs : Canonical(c)}

NoResponse == [present |-> FALSE, status_code |-> 0, content |-> Garbage]

Responses == [present : {TRUE}, status_code : StatusCodes, content : Contents]

VARIABLES
    api_key,                    \* self.api_key
    url,                        \* self.url
    version_str,                \* self.version_str
    warn_below_quota_requests,  \* self.warn_below_quota_requests
    warn_below_quota_bits,      \* self.warn_below_quota_bits
    version,                    \* the version argument of the constructor
    pc,                         \* position of the caller in the pipeline
    op,                         \* the operation being called
    args,                       \* its arguments, while the request is in flight
    request,                    \* the url and json handed to requests.post
    data_retrieve_func,         \* the projection passed to _request
    response,                   \* what requests.post returned in this call
    response_data,              \* locals of _request
    requests_left,
    bits_left,
    log,                        \* the records logged during this call, in order
    outcome                     \* what the last call gave its caller

config == <<api_key, url, version_str, warn_below_quota_requests,
            warn_below_quota_bits, version>>

vars == <<api_key, url, version_str, warn_below_quota_requests,
          warn_below_quota_bits, version, pc, op, args, request,
          data_retrieve_func, response, response_data, requests_left,
          bits_left, log, outcome>>

NoArgs == <<>>

NoRequest == <<>>

NoOutcome == [kind |-> "none", value |-> None, exc |-> ""]

Return(v) == [kind |-> "return", value |-> v, exc |-> ""]

Raise(e) == [kind |-> "raise", value |-> None, exc |-> e]

(***************************************************************************)
(* BasicApi.__init__                                                       *)
(***************************************************************************)
Init ==
    /\ \E c \in ConstructorArgs :
          /\ api_key = c.api_key
          /\ version = c.version
          /\ url = MakeUrl(c.version)
          /\ version_str = c.version_str
    /\ warn_below_quota_requests \in Thresholds
    /\ warn_below_quota_bits \in Thresholds
    /\ pc = "idle"
    /\ op = ""
    /\ args = NoArgs
    /\ request = NoRequest
    /\ data_retrieve_func = ""
    /\ response = NoResponse
    /\ response_data = None
    /\ requests_left = 0
    /\ bits_left = 0
    /\ log = <<>>
    /\ outcome = NoOutcome

(***************************************************************************)
(* Arguments the caller passes to each operation.                          *)
(***************************************************************************)
Nums == {2, 5}

Ids == Opt(1..MaxId)

GenerateIntegersArgs ==
    [num : Nums, minimum : {1}, maximum : {6}, replacement : Opt(BOOLEAN),
     base : Opt({16}), id : Ids]

GenerateIntegerSequencesArgs ==
    [num : Nums, length : {<<1, 2>>}, minimum : {<<1, 1>>}, maximum : {<<6, 9>>},
     replacement : Opt({<<TRUE, FALSE>>}), base : Opt({<<10, 16>>, <<2, 2>>}),
     id : Ids]

GenerateDecimalFractionsArgs ==
    [num : Nums, decimal_places : {2}, replacement : Opt(BOOLEAN), id : Ids]

GenerateGaussiansArgs ==
    [num : Nums, mean : {0}, standard_deviation : {1}, significant_digits : {5},
     id : Ids]

GenerateStringsArgs ==
    [num : Nums, length : {5}, characters : {"abcde"}, replacement : Opt(BOOLEAN),
     id : Ids]

GenerateUuidsArgs == [num : Nums, id : Ids]

GenerateBlobsArgs == [num : Nums, size : {128}, id : Ids]

GetUsageArgs == [id : Ids]

(***************************************************************************)
(* The payload each operation builds.                                      *)
(***************************************************************************)
\* generate_integers with the request id fixed instead of taken from the call
GenerateIntegersPayload_FixedId(a) ==
    [jsonrpc |-> version_str,
     method |-> "generateIntegers",
     params |-> [apiKey |-> api_key, n |-> a.num, min |-> a.minimum,
                 max |-> a.maximum,
                 replacement |-> Default(a.replacement, TRUE),
                 base |-> Default(a.base, 10)],
     id |-> 1]

GenerateIntegersPayload(a) ==
    [jsonrpc |-> version_str,
     method |-> "generateIntegers",
     params |-> [apiKey |-> api_key, n |-> a.num, min |-> a.minimum,
                 max |-> a.maximum,
                 replacement |-> Default(a.replacement, TRUE),
                 base |-> Default(a.base, 10)],
     id |-> Default(a.id, 1)]

GenerateIntegerSequencesPayload(a) ==
    [jsonrpc |-> version_str,
     method |-> "generateIntegerSequences",
     params |-> [apiKey |-> api_key, n |-> a.num,
                 length |-> SeqParam(a.length),
                 min |-> SeqParam(a.minimum),
                 max |-> SeqParam(a.maximum),
                 replacement |-> IF a.replacement = <<>> THEN NoneParam
                                 ELSE SeqParam(a.replacement[1]),
                 base |-> ListIntType],
     id |-> Default(a.id, 1)]

GenerateDecimalFractionsPayload(a) ==
    [jsonrpc |-> version_str,
     method |-> "generateDecimalFractions",
     params |-> [apiKey |-> api_key, n |-> a.num,
                 decimalPlaces |-> a.decimal_places,
                 replacement |-> Default(a.replacement, TRUE)],
     id |-> Default(a.id, 1)]

GenerateGaussiansPayload(a) ==
    [jsonrpc |-> version_str,
     method |-> "generateGaussians",
     params |-> [apiKey |-> api_key, n |-> a.num, mean |-> a.mean,
                 standardDeviation |-> a.standard_deviation,
                 significantDigits |-> a.significant_digits],
     id |-> Default(a.id, 1)]

GenerateStringsPayload(a) ==
    [jsonrpc |-> version_str,
     method |-> "generateStrings",
     params |-> [apiKey |-> api_key, n |-> a.num, length |-> a.length,
                 characters |-> a.characters,
                 replacement |-> Default(a.replacement, TRUE)],
     id |-> Default(a.id, 1)]

GenerateUuidsPayload(a) ==
    [jsonrpc |-> version_str,
     method |-> "generateUUIDs",
     params |-> [apiKey |-> api_key, n |-> a.num],
     id |-> Default(a.id, 1)]

GenerateBlobsPayload(a) ==
    [jsonrpc |-> version_str,
     method |-> "generateBlobs",
     params |-> [apiKey |-> api_key, n |-> a.num, size |-> a.size],
     id |-> Default(a.id, 1)]

GetUsagePayload(a) ==
    [jsonrpc |-> version_str,
     method |-> "getUsage",
     params |-> [apiKey |-> api_key],
     id |-> Default(a.id, 1)]

(***************************************************************************)
(* An operation is called: it builds its payload and enters _request,      *)
(* which hands the payload to requests.post (lines 328 and 345).           *)
(***************************************************************************)
PostRequest(method, a, payload, func) ==
    /\ pc = "idle"
    /\ pc' = "post"
    /\ op' = method
    /\ args' = a
    /\ request' = [url |-> url, json |-> payload]
    /\ data_retrieve_func' = func
    /\ UNCHANGED <<config, response, response_data, requests_left, bits_left,
                   log, outcome>>

generate_integers ==
    \E a \in GenerateIntegersArgs :
        PostRequest("generate_integers", a, GenerateIntegersPayload(a), "random.data")

generate_integer_sequences ==
    \E a \in GenerateIntegerSequencesArgs :
        PostRequest("generate_integer_sequences", a,
                    GenerateIntegerSequencesPayload(a), "random.data")

generate_decimal_fractions ==
    \E a \in GenerateDecimalFractionsArgs :
        PostRequest("generate_decimal_fractions", a,
                    GenerateDecimalFractionsPayload(a), "random.data")

generate_gaussians ==
    \E a \in GenerateGaussiansArgs :
        PostRequest("generate_gaussians", a, GenerateGaussiansPayload(a), "random.data")

generate_strings ==
    \E a \in GenerateStringsArgs :
        PostRequest("generate_strings", a, GenerateStringsPayload(a), "random.data")

generate_uuids ==
    \E a \in GenerateUuidsArgs :
        PostRequest("generate_uuids", a, GenerateUuidsPayload(a), "random.data")

generate_blobs ==
    \E a \in GenerateBlobsArgs :
        PostRequest("generate_blobs", a, GenerateBlobsPayload(a), "random.data")

get_usage ==
    \E a \in GetUsageArgs :
        PostRequest("get_usage", a, GetUsagePayload(a), "usage")

(***************************************************************************)
(* _robust_http_request (lines 342-352).  requests.post returns a response *)
(* or raises; only the builtin ConnectionError is caught, logged and       *)
(* turned into a None response; any other exception leaves _request and    *)
(* the operation.                                                          *)
(***************************************************************************)
TransportErrors == {"ConnectionError", "RequestException"}

IsCaught(exc) == exc = "ConnectionError"

\* requests.post(self.url, json=payload) of line 345 is called: the request
\* leaves the client and the caller waits for the transport
post_sends ==
    /\ pc = "post"
    /\ pc' = "wait"
    /\ args' = NoArgs
    /\ request' = NoRequest
    /\ UNCHANGED <<config, op, data_retrieve_func, response, response_data,
                   requests_left, bits_left, log, outcome>>

post_returns ==
    /\ pc = "wait"
    /\ \E r \in Responses : response' = r
    /\ pc' = "validate"
    /\ UNCHANGED <<config, op, args, request, data_retrieve_func, response_data,
                   requests_left, bits_left, log, outcome>>

post_raises ==
    /\ pc = "wait"
    /\ \E exc \in TransportErrors :
          IF IsCaught(exc)
          THEN /\ log' = Append(log, "error: ConnectionError")
               /\ pc' = "validate"
               /\ outcome' = outcome
          ELSE /\ log' = log
               /\ pc' = "done"
               /\ outcome' = Raise(exc)
    /\ response' = NoResponse
    /\ UNCHANGED <<config, op, args, request, data_retrieve_func, response_data,
                   requests_left, bits_left>>

(***************************************************************************)
(* _is_response_successful (lines 373-381), called when a response was     *)
(* obtained (lines 330-331).  Its return value is not used by _request.    *)
(***************************************************************************)
StatusWarning(status_code) ==
    IF ~(200 <= status_code /\ status_code <= 299)
    THEN <<"warning: unsuccessful status">>
    ELSE <<>>

\* a status check that ends the call with None on an unsuccessful status
_is_response_successful_Stops ==
    /\ pc = "validate"
    /\ IF response.present /\ StatusWarning(response.status_code) # <<>>
       THEN /\ log' = log \o StatusWarning(response.status_code)
            /\ outcome' = Return(None)
            /\ pc' = "done"
       ELSE /\ log' = log
            /\ outcome' = outcome
            /\ pc' = "extract"
    /\ UNCHANGED <<config, op, args, request, data_retrieve_func, response,
                   response_data, requests_left, bits_left>>

_is_response_successful ==
    /\ pc = "validate"
    /\ log' = IF response.present THEN log \o StatusWarning(response.status_code)
              ELSE log
    /\ pc' = "extract"
    /\ UNCHANGED <<config, op, args, request, data_retrieve_func, response,
                   response_data, requests_left, bits_left, outcome>>

(***************************************************************************)
(* _extract_result (lines 354-371).  Every exception of the try block      *)
(* (response is None, the body does not decode, a key is missing) is       *)
(* caught: an error is logged and None is returned.                        *)
(***************************************************************************)
\* the data_retrieve_func lambdas: x["random"]["data"] and the usage mapping
ProjectionRaises(c, func) ==
    IF func = "usage"
    THEN \/ "bitsLeft" \notin c.keys
         \/ "requestsLeft" \notin c.keys
         \/ "totalBits" \notin c.keys
         \/ "totalRequests" \notin c.keys
    ELSE \/ "random" \notin c.keys
         \/ ~c.has_data

\* the projections with two fields mixed up
Projection_Mixed(c, func) ==
    IF func = "usage"
    THEN PyDict([bits_left |-> c.requestsLeft, requests_left |-> c.bitsLeft,
                 total_bits |-> c.totalBits, total_requests |-> c.totalRequests])
    ELSE PyList(c.data)

Projection(c, func) ==
    IF func = "usage"
    THEN PyDict([bits_left |-> c.bitsLeft, requests_left |-> c.requestsLeft,
                 total_bits |-> c.totalBits, total_requests |-> c.totalRequests])
    ELSE PyList(c.data)

TryBlockRaises(resp, func) ==
    \/ ~resp.present                              \* None.content
    \/ ~resp.content.decodable                    \* json.loads
    \/ ~resp.content.has_result                   \* [...]["result"]
    \/ ProjectionRaises(resp.content, func)       \* data_retrieve_func
    \/ "requestsLeft" \notin resp.content.keys
    \/ "bitsLeft" \notin resp.content.keys

\* an extraction that answers a failure with an empty result and zero counters
ExtractResult_Defaults(resp, func) ==
    IF TryBlockRaises(resp, func)
    THEN [t |-> "tuple", response_data |-> None, requests_left |-> 0, bits_left |-> 0]
    ELSE [t |-> "tuple", response_data |-> Projection(resp.content, func),
          requests_left |-> resp.content.requestsLeft,
          bits_left |-> resp.content.bitsLeft]

ExtractResult(resp, func) ==
    IF TryBlockRaises(resp, func)
    THEN [t |-> "None", response_data |-> None, requests_left |-> 0, bits_left |-> 0]
    ELSE [t |-> "tuple", response_data |-> Projection(resp.content, func),
          requests_left |-> resp.content.requestsLeft,
          bits_left |-> resp.content.bitsLeft]

\* lines 333-335: the call and the unpacking of what it returned into three
\* names; unpacking None raises TypeError, which nothing catches
_extract_result ==
    /\ pc = "extract"
    /\ LET r == ExtractResult(response, data_retrieve_func) IN
         IF r.t = "None"
         THEN /\ log' = Append(log, "error: could not decode")
              /\ outcome' = Raise("TypeError")
              /\ pc' = "done"
              /\ UNCHANGED <<response_data, requests_left, bits_left>>
         ELSE /\ response_data' = r.response_data
              /\ requests_left' = r.requests_left
              /\ bits_left' = r.bits_left
              /\ pc' = "quota"
              /\ UNCHANGED <<log, outcome>>
    /\ UNCHANGED <<config, op, args, request, data_retrieve_func, response>>

(***************************************************************************)
(* _is_low_quota (lines 383-395): the request check returns before the bit *)
(* check is reached.  Its return value is not used by _request.            *)
(***************************************************************************)
QuotaWarnings(rl, bl) ==
    IF warn_below_quota_requests # 0 /\ rl < warn_below_quota_requests
    THEN <<"warning: low request quota">>
    ELSE IF warn_below_quota_bits # 0 /\ bl < warn_below_quota_bits
         THEN <<"warning: low bit quota">>
         ELSE <<>>

_is_low_quota ==
    /\ pc = "quota"
    /\ log' = log \o QuotaWarnings(requests_left, bits_left)
    /\ pc' = "success"
    /\ UNCHANGED <<config, op, args, request, data_retrieve_func, response,
                   response_data, requests_left, bits_left, outcome>>

(***************************************************************************)
(* _log_sucess and the return of _request (lines 338-340).                 *)
(***************************************************************************)
\* a return that withholds the data when a quota warning was due
ReturnValue_Withheld ==
    IF QuotaWarnings(requests_left, bits_left) # <<>> THEN None ELSE response_data

ReturnValue == response_data

_log_sucess ==
    /\ pc = "success"
    /\ log' = Append(log, "debug: success")
    /\ outcome' = Return(ReturnValue)
    /\ pc' = "done"
    /\ UNCHANGED <<config, op, args, request, data_retrieve_func, response,
                   response_data, requests_left, bits_left>>

(***************************************************************************)
(* The call is over: the caller has its outcome, the frame of _request and *)
(* the log records of the call are dropped, and the client, which keeps    *)
(* nothing but its configuration, is ready for the next call.              *)
(***************************************************************************)
call_ends ==
    /\ pc = "done"
    /\ pc' = "idle"
    /\ op' = ""
    /\ data_retrieve_func' = ""
    /\ response' = NoResponse
    /\ response_data' = None
    /\ requests_left' = 0
    /\ bits_left' = 0
    /\ log' = <<>>
    /\ outcome' = NoOutcome
    /\ UNCHANGED <<config, args, request>>

Next ==
    \/ generate_integers
    \/ generate_integer_sequences
    \/ generate_decimal_fractions
    \/ generate_gaussians
    \/ generate_strings
    \/ generate_uuids
    \/ generate_blobs
    \/ get_usage
    \/ post_sends
    \/ post_returns
    \/ post_raises
    \/ _is_response_successful
    \/ _extract_result
    \/ _is_low_quota
    \/ _log_sucess
    \/ call_ends

Spec == Init /\ [][Next]_vars

(***************************************************************************)
(* Vocabulary of the properties.                                           *)
(***************************************************************************)
GenerationOps == {"generate_integers", "generate_integer_sequences",
                  "generate_decimal_fractions", "generate_gaussians",
                  "generate_strings", "generate_uuids", "generate_blobs"}

Is2xx(status_code) == status_code \in 200..299

\* the body decodes to a result object that holds the projection fields of
\* operation o and both quota counters
WellFormedFor(o, c) ==
    /\ c.decodable
    /\ c.has_result
    /\ {"requestsLeft", "bitsLeft"} \subseteq c.keys
    /\ (o \in GenerationOps => "random" \in c.keys /\ c.has_data)
    /\ (o = "get_usage" => {"totalBits", "totalRequests"} \subseteq c.keys)

UsageMapping(c) ==
    [bits_left |-> c.bitsLeft, requests_left |-> c.requestsLeft,
     total_bits |-> c.totalBits, total_requests |-> c.totalRequests]

\* the call is over and its transport call failed with a caught
\* ConnectionError
ConnectionFailed ==
    /\ pc = "done"
    /\ ~response.present
    /\ log # <<>>
    /\ log[1] = "error: ConnectionError"

Emitted(event) == \E i \in 1..Len(log) : log[i] = event

(***************************************************************************)
(* C1: when the transport returns a 2xx response whose body decodes to a   *)
(* result object holding the operation's projection fields and both quota  *)
(* counters, a generation operation returns result.random.data unchanged   *)
(* and get_usage returns the mapping of the four usage fields.             *)
(***************************************************************************)
C1_SuccessReturnsProjection ==
    (/\ pc = "done"
     /\ response.present
     /\ Is2xx(response.status_code)
     /\ WellFormedFor(op, response.content))
    => /\ outcome.kind = "return"
       /\ op \in GenerationOps =>
             /\ outcome.value.t = "list"
             /\ outcome.value.list = response.content.data
       /\ op = "get_usage" =>
             /\ outcome.value.t = "dict"
             /\ outcome.value.dict = UsageMapping(response.content)

C1_Witness ==
    /\ pc = "done"
    /\ op = "get_usage"
    /\ response.present
    /\ response.status_code = 299
    /\ WellFormedFor(op, response.content)
    /\ response.content.bitsLeft # response.content.requestsLeft
    /\ outcome.kind = "return"
    /\ outcome.value.t = "dict"

(***************************************************************************)
(* C2: when the transport call fails with a connection failure, the        *)
(* operation returns None and no exception propagates out of it.           *)
(***************************************************************************)
C2_ConnectionFailureReturnsNone ==
    ConnectionFailed => outcome = Return(None)

(***************************************************************************)
(* C3: when a response is received whose body cannot be decoded or lacks   *)
(* the result object, the projection fields or a quota counter, the        *)
(* operation returns None and no exception propagates out of it.           *)
(***************************************************************************)
C3_MalformedBodyReturnsNone ==
    (/\ pc = "done"
     /\ response.present
     /\ ~WellFormedFor(op, response.content))
    => outcome = Return(None)

(***************************************************************************)
(* C4: when the HTTP status of the response is outside 200..299, the       *)
(* operation returns None and does not raise, whatever the body contains.  *)
(***************************************************************************)
C4_UnsuccessfulStatusReturnsNone ==
    (/\ pc = "done"
     /\ response.present
     /\ ~Is2xx(response.status_code))
    => outcome = Return(None)

(***************************************************************************)
(* C5: in a call whose extraction succeeds, the low-request-quota warning  *)
(* is emitted iff warn_below_quota_requests is nonzero and requests_left   *)
(* is below it, and the low-bit-quota warning is emitted iff               *)
(* warn_below_quota_bits is nonzero and bits_left is below it; when both   *)
(* conditions hold, both warnings are emitted.                             *)
(***************************************************************************)
C5_QuotaWarningsIndependent ==
    (/\ pc = "done"
     /\ response.present
     /\ WellFormedFor(op, response.content))
    => /\ Emitted("warning: low request quota")
            <=> /\ warn_below_quota_requests # 0
                /\ response.content.requestsLeft < warn_below_quota_requests
       /\ Emitted("warning: low bit quota")
            <=> /\ warn_below_quota_bits # 0
                /\ response.content.bitsLeft < warn_below_quota_bits

\* the value C1 gives operation o for the body c
ValueFor(o, c) ==
    IF o = "get_usage" THEN PyDict(UsageMapping(c)) ELSE PyList(c.data)

WithCounters(c, rl, bl) == [c EXCEPT !.requestsLeft = rl, !.bitsLeft = bl]

WireMethod ==
    [o \in GenerationOps \cup {"get_usage"} |->
        CASE o = "generate_integers" -> "generateIntegers"
          [] o = "generate_integer_sequences" -> "generateIntegerSequences"
          [] o = "generate_decimal_fractions" -> "generateDecimalFractions"
          [] o = "generate_gaussians" -> "generateGaussians"
          [] o = "generate_strings" -> "generateStrings"
          [] o = "generate_uuids" -> "generateUUIDs"
          [] o = "generate_blobs" -> "generateBlobs"
          [] o = "get_usage" -> "getUsage"]

EndpointOf ==
    [v \in Versions |->
        CASE v = 4 -> "https://api.random.org/json-rpc/4/invoke"
          [] v = 12 -> "https://api.random.org/json-rpc/12/invoke"]

C7_EnvelopeFromConfigAndArgs ==
    pc = "post" =>
       /\ request.json.jsonrpc = version_str
       /\ request.json.method = WireMethod[op]
       /\ request.json.id = (IF args.id = <<>> THEN 1 ELSE args.id[1])
       /\ request.json.params.apiKey = api_key
       /\ request.url = EndpointOf[version]

C7_Witness ==
    /\ pc = "post"
    /\ op = "generate_integers"
    /\ args.id = <<2>>
    /\ request.json.id = 2
    /\ version = 12
    /\ api_key = "key_b"
    /\ request.json.params.apiKey = "key_b"

(***************************************************************************)
(* C8: generate_integer_sequences sends every per-sequence argument as     *)
(* supplied: params.length, params.min, params.max, params.replacement and *)
(* params.base are the lists the caller passed.                            *)
(***************************************************************************)
C8_PerSequenceArgumentsSent ==
    (pc = "post" /\ op = "generate_integer_sequences") =>
       /\ request.json.params.length = SeqParam(args.length)
       /\ request.json.params.min = SeqParam(args.minimum)
       /\ request.json.params.max = SeqParam(args.maximum)
       /\ args.replacement # <<>> =>
             request.json.params.replacement = SeqParam(args.replacement[1])
       /\ args.base # <<>> =>
             request.json.params.base = SeqParam(args.base[1])

(***************************************************************************)
(* C9: an unsuccessful status does not stop the pipeline: once a response  *)
(* is received, the status warning is emitted iff the status is outside    *)
(* 200..299 and it comes before anything else of the call; extraction is   *)
(* then attempted (it logs its failure, or the call runs to its success    *)
(* record), and a well-formed body yields the value of that body whatever  *)
(* the status is.                                                          *)
(***************************************************************************)
C9_StatusDoesNotStopPipeline ==
    (pc \in {"extract", "quota", "success", "done"} /\ response.present)
    => /\ Emitted("warning: unsuccessful status") <=> ~Is2xx(response.status_code)
       /\ Emitted("warning: unsuccessful status")
             => log[1] = "warning: unsuccessful status"
       /\ pc = "done" =>
             \/ Emitted("error: could not decode")
             \/ Emitted("debug: success")
       /\ (pc = "done" /\ WellFormedFor(op, response.content))
             => outcome = Return(ValueFor(op, response.content))

C9_Witness ==
    /\ pc = "done"
    /\ response.present
    /\ response.status_code = 300
    /\ WellFormedFor(op, response.content)
    /\ log[1] = "warning: unsuccessful status"
    /\ outcome.kind = "return"
    /\ outcome.value.t = "list"
    /\ outcome.value.list = <<1, 2>>

(***************************************************************************)
(* C10: a transport failure short-circuits the pipeline: when the          *)
(* transport produced no response, no later stage runs, and the only       *)
(* record of the call is the transport-failure error.                      *)
(***************************************************************************)
C10_TransportFailureShortCircuits ==
    ConnectionFailed => log = <<"error: ConnectionError">>

(***************************************************************************)
(* C11: in every call where extraction fails (the body does not decode, or *)
(* lacks the result object, a projection field or a quota counter), the    *)
(* quota check is not performed: the call never reaches the quota check or *)
(* the success record, and no low-quota warning and no success record is   *)
(* emitted, whatever the thresholds are.                                   *)
(***************************************************************************)
C11_NoQuotaCheckAfterExtractionFailure ==
    (response.present /\ ~WellFormedFor(op, response.content))
    => /\ pc \notin {"quota", "success"}
       /\ ~Emitted("warning: low request quota")
       /\ ~Emitted("warning: low bit quota")
       /\ ~Emitted("debug: success")

C11_Witness ==
    /\ pc = "done"
    /\ op = "generate_strings"
    /\ response.present
    /\ response.content.decodable
    /\ response.content.has_result
    /\ response.content.has_data
    /\ "requestsLeft" \in response.content.keys
    /\ "bitsLeft" \notin response.content.keys
    /\ warn_below_quota_requests # 0
    /\ response.content.requestsLeft < warn_below_quota_requests
    /\ warn_below_quota_bits # 0
    /\ Emitted("error: could not decode")

====
